---- MODULE Spec2Model ----
(***************************************************************************)
(* midir, ALSA backend (src/backend/alsa/mod.rs).                          *)
(*                                                                         *)
(* The model follows one client object of the program, either a MidiInput  *)
(* or a MidiOutput, through connect / create_virtual, the input handler    *)
(* thread (handle_input), send, and close / Drop.                          *)
(*                                                                         *)
(* The ALSA sequencer is the environment.  Its input buffer is kept as the *)
(* number of pending events; the content of an event is drawn when the     *)
(* handler pulls it with event_input, which is the first moment the        *)
(* program can observe it.                                                 *)
(***************************************************************************)
EXTENDS Integers, Sequences, FiniteSets, TLC

(* ------------------------------ bounds -------------------------------- *)

\* events the sequencer delivers to the input port of one connection (HandlerSpec)
MaxEvents == 3
\* events the sequencer delivers during the whole life of a client object (Spec)
MaxLifeEvents == 1
\* events the sequencer input buffer holds at one time
MaxQueue == 2
\* connect / create_virtual calls on one client object
MaxConnects == 1
\* ports of the system matching the requested capability
MaxPorts == 1
\* send calls on one output connection
MaxSends == 2

(* --------------------------- program constants ------------------------ *)

\* the sysex terminator tested at mod.rs:660
SysexEnd == 247
\* `* 0.000001` at mod.rs:688: a delta is DeltaNum / TimestampDenominator
TimestampDenominator == 1000000
\* `secs as u64 * 1_000_000` at mod.rs:685
MicrosPerSec == 1000000
\* `nsecs as u64/1_000` at mod.rs:685
NanosPerMicro == 1000
\* `const INITIAL_CODER_BUFFER_SIZE: usize = 32`
INITIAL_CODER_BUFFER_SIZE == 32

(* ------------------------------ events -------------------------------- *)

NoTime == <<>>

\* captured times (secs, nsecs) of the events: 1.000000 s and 1.002500 s
Times == { <<1, 0>>, <<1, 2500000>> }

\* payloads of the sysex events (ev.get_ext()): an empty payload, a first
\* fragment, a last fragment
SysexPayloads == { <<>>, <<240, 1>>, <<2, SysexEnd>> }

\* event types that carry no variable-length payload
PlainKinds == { "PortSubscribed", "PortUnsubscribed", "Qframe", "Tick", "Clock",
                "Sensing", "NoteOn", "Echo" }

NoExt == <<>>

\* the events the handler can receive from the input port; time is NoTime
\* for an event that carries a tick stamp instead of a real-time stamp
Events ==
    [ kind : {"Sysex"}, ext : SysexPayloads, time : Times \cup {NoTime} ]
    \cup [ kind : PlainKinds, ext : {NoExt}, time : Times \cup {NoTime} ]

\* outcome of event_input when it fails (mod.rs:611-623)
ReadErrors == { "ENOSPC", "EAGAIN", "EOTHER" }

\* the ignore flag sets: Ignore::None .. Ignore::All
IgnoreSets == SUBSET { "Sysex", "Time", "ActiveSense" }

(* ------------------------- pure functions ----------------------------- *)

Last(s) == s[Len(s)]

\* snd_midi_event_decode with running status disabled: the MIDI bytes of a
\* non-sysex event; no byte for an event that is not a MIDI event
Decode(ev) ==
    CASE ev.kind = "Clock"   -> <<248>>
      [] ev.kind = "Tick"    -> <<249>>
      [] ev.kind = "Qframe"  -> <<241, 5>>
      [] ev.kind = "Sensing" -> <<254>>
      [] ev.kind = "NoteOn"  -> <<144, 60, 100>>
      [] OTHER               -> <<>>

\* a changed DoDecode: the timing events are decoded whatever the flags
DoDecodeTime(ev, flags) ==
    CASE ev.kind \in {"PortSubscribed", "PortUnsubscribed"} -> FALSE
      [] ev.kind \in {"Qframe", "Tick", "Clock"} -> TRUE
      [] ev.kind = "Sensing" -> "ActiveSense" \notin flags
      [] ev.kind = "Sysex"   -> FALSE
      [] OTHER               -> TRUE

\* a changed DoDecode: active sensing is decoded whatever the flags
DoDecodeSensing(ev, flags) ==
    CASE ev.kind \in {"PortSubscribed", "PortUnsubscribed"} -> FALSE
      [] ev.kind \in {"Qframe", "Tick", "Clock"} -> "Time" \notin flags
      [] ev.kind = "Sensing" -> TRUE
      [] ev.kind = "Sysex"   -> FALSE
      [] OTHER               -> TRUE

\* the match on ev.get_type(): whether the event goes to the decoder
DoDecode(ev, flags) ==
    CASE ev.kind \in {"PortSubscribed", "PortUnsubscribed"} -> FALSE
      [] ev.kind \in {"Qframe", "Tick", "Clock"} -> "Time" \notin flags
      [] ev.kind = "Sensing" -> "ActiveSense" \notin flags
      [] ev.kind = "Sysex"   -> FALSE
      [] OTHER               -> TRUE

\* the captured time in whole microseconds
Timestamp(t) == t[1] * MicrosPerSec + (t[2] \div NanosPerMicro)

(* ------------------------------ state --------------------------------- *)

VARIABLES
    client,            \* "input": MidiInput::new was called; "output": MidiOutput::new
    avoid_timestamping,\* the build has the feature "avoid_timestamping"
    mainPc,            \* where the thread that owns the client object stands
    via,               \* who runs close_internal: "close", "drop" or "none"
    connects,          \* connect / create_virtual calls made so far
    connResult,        \* what the last connect / create_virtual call returned
    ignore_flags,      \* MidiInput.ignore_flags
    seq_open,          \* the sequencer handle opened by new() has not been dropped
    input_seq,         \* MidiInput.seq is Some
    output_seq,        \* MidiOutput.seq is Some
    outconn_seq,       \* MidiOutputConnection.seq is Some
    conn_thread,       \* MidiInputConnection.thread is Some
    conn_subscription, \* the connection's subscription is Some
    trigger,           \* the two descriptors of the connection's pipe
    leakedFds,         \* pipes opened by a connect call that returned without a connection
    queues,            \* sequencer queues the client has allocated and not freed
    vports,            \* virtual ports the client has created and not deleted
    subs,              \* subscriptions the client has made and not removed
    pipeData,          \* bytes written to the pipe and not yet read
    stopWrites,        \* writes of the stop request for the current connection
    joins,             \* joins of the handler thread of the current connection
    closerData,        \* the closing thread holds the HandlerData the join gave back
    workerPc,          \* the handler thread: "none", "top", "poll", "done", "panicked"
    do_input,          \* handle_input's do_input
    continue_sysex,    \* handle_input's continue_sysex
    message,           \* handle_input's message.bytes
    timestamp,         \* handle_input's message.timestamp, a delta
    last_time,         \* handle_input's last_time: <<>> for None, <<t>> for Some(t)
    hd_ignore_flags,   \* HandlerData.ignore_flags
    pending,           \* events in the sequencer's input buffer
    arrived,           \* events delivered to the port so far
    pulled,            \* events event_input has returned to the current handler thread
    calls,             \* callback invocations of the current handler thread, each with
                       \* the arguments (message.timestamp, &message.bytes)
    sx_frags,          \* the sysex fragments pulled since the last terminated one
    last_read,         \* what the last call of event_input gave the current handler
                       \* thread: "none", the error, or the type of the event
    coder_buffer_size, \* EventEncoder.buffer_size of the output connection
    coder_capacity,    \* the size of the buffer the encoder really has
    sends,             \* send calls on the current output connection
    sent,              \* events of the current output connection event_output took
    last_sent,         \* the last of these events
    sendResult         \* what the last send call returned

vars == << client, avoid_timestamping, seq_open, mainPc, via, connects,
           connResult, ignore_flags, input_seq, output_seq, outconn_seq,
           conn_thread, conn_subscription, trigger, leakedFds, queues, vports,
           subs, pipeData, stopWrites, joins, closerData, workerPc, do_input,
           continue_sysex, message, timestamp, last_time, hd_ignore_flags,
           pending, arrived, pulled, calls, sx_frags, last_read,
           coder_buffer_size, coder_capacity, sends, sent, last_sent,
           sendResult >>

\* fixed by the build and by the constructor that was called
envVars == << client, avoid_timestamping >>

\* the encoder of the output connection and the record of its send calls
outVars == << coder_buffer_size, coder_capacity, sends, sent, last_sent, sendResult >>

\* the variables of the main thread and the host resources
mainVars == << mainPc, via, connects, connResult, ignore_flags, input_seq,
               output_seq, outconn_seq, conn_thread, conn_subscription, trigger,
               leakedFds, queues, vports, subs, stopWrites, joins, closerData >>

\* the locals of handle_input and the record of what it did
handlerVars == << do_input, continue_sysex, message, timestamp, last_time,
                  hd_ignore_flags, pulled, calls, sx_frags, last_read >>

NoFds == [ rcv |-> "none", snd |-> "none" ]

\* no event: the `None` of encode's result
NoEvent == [ kind |-> "None", ext |-> NoExt ]

\* a timestamp delta: (hi * 2^64 + lo) / TimestampDenominator
ZeroDelta == [ hi |-> 0, lo |-> 0 ]

\* a changed InitialLastTime: last_time starts as Some(0)
InitialLastTimeZero == <<0>>

\* `let mut last_time: Option<u64> = None`
InitialLastTime == <<>>

WorkerRunning == workerPc \in {"top", "poll"}

Init ==
    /\ client \in {"input", "output"}
    /\ avoid_timestamping \in (IF client = "input" THEN BOOLEAN ELSE {FALSE})
    /\ mainPc = "unconnected"
    /\ via = "none"
    /\ connects = 0
    /\ connResult = "none"
    /\ ignore_flags = {}
    /\ seq_open = TRUE
    /\ input_seq = (client = "input")
    /\ output_seq = (client = "output")
    /\ outconn_seq = FALSE
    /\ conn_thread = FALSE
    /\ conn_subscription = FALSE
    /\ trigger = NoFds
    /\ leakedFds = 0
    /\ queues = 0
    /\ vports = 0
    /\ subs = 0
    /\ pipeData = 0
    /\ stopWrites = 0
    /\ joins = 0
    /\ closerData = FALSE
    /\ workerPc = "none"
    /\ do_input = TRUE
    /\ continue_sysex = FALSE
    /\ message = <<>>
    /\ timestamp = ZeroDelta
    /\ last_time = InitialLastTime
    /\ hd_ignore_flags = {}
    /\ pending = 0
    /\ arrived = 0
    /\ pulled = 0
    /\ calls = 0
    /\ sx_frags = <<>>
    /\ last_read = "none"
    /\ coder_buffer_size = 0
    /\ coder_capacity = 0
    /\ sends = 0
    /\ sent = 0
    /\ last_sent = NoEvent
    /\ sendResult = "none"

(* ----------------------- MidiInput: connect ---------------------------- *)

\* the host calls of connect that can fail, and "none"
InputFailures == { "none", "pipe", "queue", "port", "subscribe", "spawn" }

\* MidiInput::ignore
Ignore(flags) ==
    /\ client = "input"
    /\ mainPc = "unconnected"
    /\ ignore_flags' = flags
    /\ UNCHANGED << envVars, outVars, seq_open, mainPc, via, connects,
                    connResult, input_seq, output_seq, outconn_seq,
                    conn_thread, conn_subscription, trigger, leakedFds, queues,
                    vports, subs, pipeData, stopWrites, joins, closerData,
                    workerPc, pending, arrived >>
    /\ UNCHANGED handlerVars

\* The checks of MidiInput::connect (virtual = FALSE) and create_virtual
\* (virtual = TRUE) in the order of the code; p is port_number, n the number of
\* ports get_port_info iterates over, nul whether port_name holds a null byte,
\* fail the host call that fails.  The result is the error returned, "Ok", or
\* the unwrap that panics.
InputOutcome(virtual, hasSeq, p, n, nul, fail) ==
    IF fail = "pipe" THEN "Other_pipe"
    ELSE IF ~hasSeq THEN "Panic_seq"
    ELSE IF fail = "queue" /\ ~avoid_timestamping THEN "Panic_queue"
    ELSE IF ~virtual /\ ~(p < n) THEN "PortNumberOutOfRange"
    ELSE IF nul THEN "Other_nul"
    ELSE IF fail = "port" THEN "Other_port"
    ELSE IF ~virtual /\ fail = "subscribe" THEN "Other_subscribe"
    ELSE IF fail = "spawn" THEN "Other_thread"
    ELSE "Ok"

\* whether init_trigger has opened the pipe when the call ends this way
PipeOpenedBy(outcome) == outcome # "Other_pipe"

\* whether init_queue has allocated the queue
QueueAllocatedBy(outcome) ==
    ~avoid_timestamping /\ outcome \notin {"Other_pipe", "Panic_seq", "Panic_queue"}

\* a changed PortCreatedBy: the port is created before the port number is looked up
PortCreatedEarly(outcome) ==
    outcome \in {"PortNumberOutOfRange", "Other_nul", "Other_subscribe", "Other_thread", "Ok"}

\* whether create_port has created the virtual port
PortCreatedBy(outcome) == outcome \in {"Other_subscribe", "Other_thread", "Ok"}

\* whether subscribe_port has made the subscription
SubscribedBy(virtual, outcome) == ~virtual /\ outcome \in {"Other_thread", "Ok"}

\* a changed SeqTakenBy: the handler gets a second reference to the handle and
\* MidiInput keeps its own
SeqNeverTaken(outcome) == FALSE

\* whether `self.seq.take()` has run: MidiInput.seq is None from then on
SeqTakenBy(outcome) == outcome \in {"Other_thread", "Ok"}

\* whether the sequencer handle is dropped before the call ends: the closure
\* that owns handler_data is dropped by a failed spawn, and a panic unwinds
\* through `self`
SeqDroppedBy(outcome) == outcome \in {"Other_thread", "Panic_seq", "Panic_queue"}

Count(b) == IF b THEN 1 ELSE 0

ConnectInput(virtual, p, n, nul, fail) ==
    LET outcome == InputOutcome(virtual, input_seq, p, n, nul, fail) IN
    /\ client = "input"
    /\ mainPc = "unconnected"
    /\ connects < MaxConnects
    /\ connects' = connects + 1
    /\ connResult' = outcome
    /\ mainPc' = CASE outcome = "Ok" -> "connected"
                   [] outcome \in {"Panic_seq", "Panic_queue"} -> "panicked"
                   [] OTHER -> "unconnected"
    /\ input_seq' = (input_seq /\ ~SeqTakenBy(outcome) /\ ~SeqDroppedBy(outcome))
    /\ seq_open' = (seq_open /\ ~SeqDroppedBy(outcome))
    /\ leakedFds' = leakedFds + Count(PipeOpenedBy(outcome) /\ outcome # "Ok")
    /\ trigger' = IF outcome = "Ok" THEN [ rcv |-> "open", snd |-> "open" ] ELSE trigger
    \* closing the sequencer handle frees the client's queues, ports and subscriptions
    /\ queues' = IF SeqDroppedBy(outcome) THEN 0
                 ELSE queues + Count(QueueAllocatedBy(outcome))
    /\ vports' = IF SeqDroppedBy(outcome) THEN 0
                 ELSE vports + Count(PortCreatedBy(outcome))
    /\ subs' = IF SeqDroppedBy(outcome) THEN 0
               ELSE subs + Count(SubscribedBy(virtual, outcome))
    /\ conn_thread' = (outcome = "Ok")
    /\ conn_subscription' = (outcome = "Ok" /\ ~virtual)
    /\ IF outcome = "Ok"
       THEN \* the thread is spawned and handle_input starts
            /\ workerPc' = "top"
            /\ hd_ignore_flags' = ignore_flags
            /\ do_input' = TRUE
            /\ continue_sysex' = FALSE
            /\ message' = <<>>
            /\ timestamp' = ZeroDelta
            /\ last_time' = InitialLastTime
            /\ pulled' = 0
            /\ calls' = 0
            /\ sx_frags' = <<>>
            /\ last_read' = "none"
            /\ pipeData' = 0
            /\ stopWrites' = 0
            /\ joins' = 0
       ELSE /\ UNCHANGED << workerPc, pipeData, stopWrites, joins >>
            /\ UNCHANGED handlerVars
    /\ UNCHANGED << envVars, outVars, via, ignore_flags, output_seq,
                    outconn_seq, closerData, pending, arrived >>

\* MidiInput::connect
Connect(p, n, nul, fail) == ConnectInput(FALSE, p, n, nul, fail)

\* MidiInput::create_virtual
CreateVirtual(nul, fail) == ConnectInput(TRUE, 0, 0, nul, fail)

(* --------------------- the sequencer delivers events ------------------ *)

\* the virtual port exists from a successful connect until delete_port
PortExists == client = "input" /\ mainPc \in {"connected", "joining", "cleanup"}

\* a client of the sequencer sends an event to the port; at most max events
\* are sent
ArriveUpTo(max) ==
    /\ PortExists
    /\ arrived < max
    /\ pending < MaxQueue
    /\ arrived' = arrived + 1
    /\ pending' = pending + 1
    /\ UNCHANGED << envVars, outVars, seq_open, workerPc, pipeData >>
    /\ UNCHANGED mainVars
    /\ UNCHANGED handlerVars

(* ------------------------- handle_input ------------------------------- *)

\* a changed LoopContinues: the loop does not test do_input
LoopContinuesAlways(di) == TRUE

\* `while do_input`
LoopContinues(di) == di

\* a changed ClearedMessage: the message is never cleared
KeptMessage(cs, msg) == msg

\* a changed ClearedMessage: the message is cleared in every iteration
ClearedAlways(cs, msg) == <<>>

\* `if !continue_sysex { message.bytes.clear() }`
ClearedMessage(cs, msg) == IF ~cs THEN <<>> ELSE msg

\* `message.bytes.extend_from_slice(ev.get_ext().unwrap())`
SysexAppend(msg, ext) == msg \o ext

\* `continue_sysex = *message.bytes.last().unwrap() != 0xF7`, for a message
\* that is not empty
ContinueSysex(msg) == Last(msg) # SysexEnd

\* `message.bytes.extend_from_slice(&buffer[0..nbytes])`
DecodeAppend(msg, ev) == msg \o Decode(ev)

\* a changed Delivers: the sysex continuation is not tested
DeliversNonEmpty(msg, cs) == ~(Len(msg) = 0)

\* `if message.bytes.len() == 0 || continue_sysex { continue; }`
Delivers(msg, cs) == ~(Len(msg) = 0 \/ cs)

\* a changed Delta: the difference is scaled to milliseconds
DeltaMillis(last, ts) ==
    IF last = <<>> THEN ZeroDelta
    ELSE IF ts >= last[1] THEN [ hi |-> 0, lo |-> (ts - last[1]) * 1000 ]
    ELSE [ hi |-> 1, lo |-> (ts - last[1]) * 1000 ]

\* `match last_time { None => 0.0, Some(last) => (timestamp - last) as f64 * 0.000001 }`
\* where the u64 subtraction has wrapped when timestamp < last
Delta(last, ts) ==
    IF last = <<>> THEN ZeroDelta
    ELSE IF ts >= last[1] THEN [ hi |-> 0, lo |-> ts - last[1] ]
    ELSE [ hi |-> 1, lo |-> ts - last[1] ]

\* the flag value close_internal writes and the handler reads into do_input
StopRequest == FALSE

\* `if let Ok(0) = seq_input.event_input_pending(true)`: nothing is pending,
\* the handler goes to poll
WorkerCheckPending ==
    /\ workerPc = "top"
    /\ LoopContinues(do_input)
    /\ pending = 0
    /\ workerPc' = "poll"
    /\ UNCHANGED << envVars, outVars, seq_open, pipeData, pending, arrived >>
    /\ UNCHANGED mainVars
    /\ UNCHANGED handlerVars

\* poll returns >= 0: the pipe is read when its descriptor is readable
WorkerPoll ==
    /\ workerPc = "poll"
    /\ pipeData > 0 \/ pending > 0
    /\ IF pipeData > 0
       THEN /\ do_input' = StopRequest
            /\ pipeData' = pipeData - 1
       ELSE UNCHANGED << do_input, pipeData >>
    /\ workerPc' = "top"
    /\ UNCHANGED << envVars, outVars, seq_open, pending, arrived,
                    continue_sysex, message, timestamp, last_time,
                    hd_ignore_flags, pulled, calls, sx_frags, last_read >>
    /\ UNCHANGED mainVars

\* poll returns a negative value (it was interrupted): nothing is read
WorkerPollInterrupted ==
    /\ workerPc = "poll"
    /\ workerPc' = "top"
    /\ UNCHANGED << envVars, outVars, seq_open, pipeData, pending, arrived >>
    /\ UNCHANGED mainVars
    /\ UNCHANGED handlerVars

\* event_input fails: the three Err arms, each of which continues
WorkerReadError(code) ==
    /\ workerPc = "top"
    /\ LoopContinues(do_input)
    /\ message' = ClearedMessage(continue_sysex, message)
    /\ code \in ReadErrors
    /\ last_read' = code
    /\ UNCHANGED << envVars, outVars, seq_open, workerPc, pipeData, pending,
                    arrived, do_input, continue_sysex, timestamp, last_time,
                    hd_ignore_flags, pulled, calls, sx_frags >>
    /\ UNCHANGED mainVars

\* One iteration of the loop that pulls the event ev.  overflowChecks is
\* whether the build panics on integer overflow (a debug build) or wraps.
WorkerEvent(ev, overflowChecks) ==
    LET flags   == hd_ignore_flags
        m0      == ClearedMessage(continue_sysex, message)
        isSx    == ev.kind = "Sysex" /\ "Sysex" \notin flags
        m1      == IF isSx THEN SysexAppend(m0, ev.ext) ELSE m0
        \* `message.bytes.last().unwrap()` on an empty message
        sxPanic == isSx /\ m1 = <<>>
        cs1     == IF isSx /\ ~sxPanic THEN ContinueSysex(m1) ELSE continue_sysex
        m2      == IF DoDecode(ev, flags) THEN DecodeAppend(m1, ev) ELSE m1
        deliver == ~sxPanic /\ Delivers(m2, cs1)
        \* `ev.get_time().unwrap()` on an event without a real-time stamp
        tmPanic == deliver /\ ev.time = NoTime
        ts      == Timestamp(ev.time)
        \* `timestamp - last` below zero
        ovPanic == /\ deliver /\ ~tmPanic /\ overflowChecks
                   /\ last_time # <<>> /\ ts < last_time[1]
        panic   == sxPanic \/ tmPanic \/ ovPanic
    IN
    \* the build decides only an iteration whose subtraction overflows
    /\ overflowChecks => ovPanic
    \* a port with real-time stamping stamps every event it receives; without
    \* it (avoid_timestamping) an event keeps the stamp its sender gave it
    /\ ev.time = NoTime => avoid_timestamping
    \* the queue that stamps the events belongs to this client and its time
    \* does not go back
    /\ (ev.time # NoTime /\ last_time # <<>> /\ ts < last_time[1]) => avoid_timestamping
    /\ workerPc = "top"
    /\ LoopContinues(do_input)
    /\ pending > 0
    /\ pending' = pending - 1
    /\ pulled' = pulled + 1
    /\ last_read' = ev.kind
    /\ sx_frags' = IF ~isSx THEN sx_frags
                   ELSE IF ev.ext # <<>> /\ Last(ev.ext) = SysexEnd THEN <<>>
                   ELSE Append(sx_frags, ev.ext)
    /\ message' = m2
    /\ continue_sysex' = cs1
    /\ workerPc' = IF panic THEN "panicked" ELSE "top"
    \* a panic unwinds through `data`, which closes the sequencer handle
    /\ seq_open' = (seq_open /\ ~panic)
    /\ IF deliver /\ ~panic
       THEN \* `(data.callback)(message.timestamp, &message.bytes)`
            /\ timestamp' = Delta(last_time, ts)
            /\ last_time' = <<ts>>
            /\ calls' = calls + 1
       ELSE UNCHANGED << timestamp, last_time, calls >>
    /\ UNCHANGED << envVars, outVars, pipeData, arrived, do_input,
                    hd_ignore_flags >>
    /\ UNCHANGED mainVars

\* the loop ends and handle_input returns `data` to the thread's owner
WorkerExit ==
    /\ workerPc = "top"
    /\ ~LoopContinues(do_input)
    /\ workerPc' = "done"
    /\ UNCHANGED << envVars, outVars, seq_open, pipeData, pending, arrived >>
    /\ UNCHANGED mainVars
    /\ UNCHANGED handlerVars

(* ------------------ MidiInputConnection: close, Drop ------------------ *)

\* a changed DropCloses: Drop does not test the join handle
DropClosesAlways(thread) == TRUE

\* `if self.thread.is_some()` in Drop
DropCloses(thread) == thread

\* a changed JoinReturns: close does not wait for the handler thread
JoinReturnsAtOnce(pc) == TRUE

\* `thread.join()` returns once the handler thread has ended
JoinReturns(pc) == pc \in {"done", "panicked"}

\* `::libc::close(fd)`
CloseFd(fd) == IF fd = "open" THEN "closed" ELSE "closed_twice"

\* The start of close_internal, run for close() or for Drop: the stop request
\* is written, then `self.thread.take().unwrap()` takes the join handle, and
\* panics when it is already taken.
CloseInternalBegin(who) ==
    /\ stopWrites' = stopWrites + 1
    /\ pipeData' = IF trigger.snd = "open" THEN pipeData + 1 ELSE pipeData
    /\ conn_thread' = FALSE
    /\ IF conn_thread
       THEN /\ mainPc' = "joining"
            /\ via' = who
       ELSE /\ mainPc' = "panicked"
            /\ via' = via
    /\ UNCHANGED << envVars, outVars, seq_open, connects, connResult,
                    ignore_flags, input_seq, output_seq, outconn_seq,
                    conn_subscription, trigger, leakedFds, queues, vports,
                    subs, joins, closerData, workerPc, pending, arrived >>
    /\ UNCHANGED handlerVars

\* MidiInputConnection::close is called
Close ==
    /\ client = "input"
    /\ mainPc = "connected"
    /\ CloseInternalBegin("close")

\* the connection goes out of scope without close
DropConnection ==
    /\ client = "input"
    /\ mainPc = "connected"
    /\ DropCloses(conn_thread)
    /\ CloseInternalBegin("drop")

\* `thread.join().unwrap()`: the join gives the HandlerData back, or panics
\* when the handler thread has panicked
Join ==
    /\ mainPc = "joining"
    /\ JoinReturns(workerPc)
    /\ joins' = joins + 1
    /\ IF workerPc = "panicked"
       THEN /\ mainPc' = "panicked"
            /\ closerData' = FALSE
       ELSE /\ mainPc' = "cleanup"
            /\ closerData' = TRUE
    /\ UNCHANGED << envVars, outVars, seq_open, via, connects, connResult,
                    ignore_flags, input_seq, output_seq, outconn_seq,
                    conn_thread, conn_subscription, trigger, leakedFds, queues,
                    vports, subs, pipeData, stopWrites, workerPc, pending,
                    arrived >>
    /\ UNCHANGED handlerVars

\* a changed ClosedFlags: close builds the MidiInput as new() does
ClosedFlagsDefault(flags) == {}

\* `ignore_flags: handler_data.ignore_flags` in close()
ClosedFlags(flags) == flags

\* The rest of close_internal: unsubscribe, close both descriptors, stop and
\* free the queue, delete the port.  close() then builds the MidiInput from
\* the HandlerData; Drop lets the HandlerData go, which closes the sequencer
\* handle.
Cleanup ==
    /\ mainPc = "cleanup"
    /\ trigger' = [ rcv |-> CloseFd(trigger.rcv), snd |-> CloseFd(trigger.snd) ]
    /\ pipeData' = 0
    /\ closerData' = FALSE
    /\ conn_subscription' = conn_subscription
    /\ IF via = "close"
       THEN /\ mainPc' = "returned"
            /\ ignore_flags' = ClosedFlags(hd_ignore_flags)
            /\ input_seq' = TRUE
            /\ subs' = subs - Count(conn_subscription)
            /\ queues' = queues - Count(~avoid_timestamping)
            /\ vports' = vports - 1
       ELSE /\ mainPc' = "dropped"
            /\ subs' = 0
            /\ queues' = 0
            /\ vports' = 0
            /\ UNCHANGED << ignore_flags, input_seq >>
    /\ seq_open' = (seq_open /\ via = "close")
    /\ UNCHANGED << envVars, outVars, via, connects, connResult, output_seq,
                    outconn_seq, conn_thread, leakedFds, stopWrites, joins,
                    workerPc, pending, arrived >>
    \* the frame of handle_input and the HandlerData are gone
    /\ do_input' = TRUE
    /\ continue_sysex' = FALSE
    /\ message' = <<>>
    /\ timestamp' = ZeroDelta
    /\ last_time' = InitialLastTime
    /\ hd_ignore_flags' = {}
    /\ pulled' = 0
    /\ calls' = 0
    /\ sx_frags' = <<>>
    /\ last_read' = "none"

\* close() returns and `self`, the connection, is dropped: Drop runs
\* close_internal again only if the join handle is still there
DropAfterClose ==
    /\ client = "input"
    /\ mainPc = "returned"
    /\ IF DropCloses(conn_thread)
       THEN CloseInternalBegin("drop")
       ELSE /\ mainPc' = "unconnected"
            /\ via' = "none"
            /\ UNCHANGED << envVars, outVars, seq_open, connects, connResult,
                            ignore_flags, input_seq, output_seq, outconn_seq,
                            conn_thread, conn_subscription, trigger, leakedFds,
                            queues, vports, subs, pipeData, stopWrites, joins,
                            closerData, workerPc, pending, arrived >>
            /\ UNCHANGED handlerVars

(* ------------------------- MidiOutput: connect ------------------------ *)

OutputFailures == { "none", "port", "subscribe" }

\* the checks of MidiOutput::connect and create_virtual in the order of the code
OutputOutcome(virtual, p, n, nul, fail) ==
    IF ~virtual /\ ~(p < n) THEN "PortNumberOutOfRange"
    ELSE IF nul THEN "Other_nul"
    ELSE IF fail = "port" THEN "Other_port"
    ELSE IF ~virtual /\ fail = "subscribe" THEN "Other_subscribe"
    ELSE "Ok"

\* whether create_simple_port has created the virtual port
OutPortCreatedBy(outcome) == outcome \in {"Other_subscribe", "Ok"}

ConnectOutput(virtual, p, n, nul, fail) ==
    LET outcome == OutputOutcome(virtual, p, n, nul, fail) IN
    /\ client = "output"
    /\ mainPc = "unconnected"
    /\ connects < MaxConnects
    /\ connects' = connects + 1
    /\ connResult' = outcome
    /\ mainPc' = IF outcome = "Ok" THEN "connected" ELSE "unconnected"
    /\ vports' = vports + Count(OutPortCreatedBy(outcome))
    /\ subs' = subs + Count(~virtual /\ outcome = "Ok")
    /\ conn_subscription' = (~virtual /\ outcome = "Ok")
    /\ output_seq' = (output_seq /\ outcome # "Ok")
    /\ outconn_seq' = (outcome = "Ok")
    /\ IF outcome = "Ok"
       THEN \* `coder: helpers::EventEncoder::new(INITIAL_CODER_BUFFER_SIZE as u32)`
            /\ coder_buffer_size' = INITIAL_CODER_BUFFER_SIZE
            /\ coder_capacity' = INITIAL_CODER_BUFFER_SIZE
            /\ sends' = 0
            /\ sent' = 0
            /\ last_sent' = NoEvent
            /\ sendResult' = "none"
       ELSE UNCHANGED outVars
    /\ UNCHANGED << envVars, seq_open, via, ignore_flags, input_seq,
                    conn_thread, trigger, leakedFds, queues, pipeData,
                    stopWrites, joins, closerData, workerPc, pending,
                    arrived >>
    /\ UNCHANGED handlerVars

\* MidiOutput::connect
OutConnect(p, n, nul, fail) == ConnectOutput(FALSE, p, n, nul, fail)

\* MidiOutput::create_virtual
OutCreateVirtual(nul, fail) == ConnectOutput(TRUE, 0, 0, nul, fail)

\* the connection is consumed, and the encoder with it
CoderDropped ==
    /\ coder_buffer_size' = 0
    /\ coder_capacity' = 0
    /\ sends' = 0
    /\ sent' = 0
    /\ last_sent' = NoEvent
    /\ sendResult' = "none"

(* ---------------------- MidiOutputConnection: send -------------------- *)

\* n times the byte b
Fill(n, b) == [ i \in 1..n |-> b ]

RECURSIVE Repeat(_, _)
\* n times the bytes s
Repeat(n, s) == IF n = 0 THEN <<>> ELSE s \o Repeat(n - 1, s)

\* a note-on message
NoteOnMsg == <<144, 60, 100>>

\* a system-exclusive message one byte longer than the initial buffer
LongSysex == <<240>> \o Fill(INITIAL_CODER_BUFFER_SIZE - 1, 1) \o <<SysexEnd>>

\* note-on messages in a row, one byte longer than the initial buffer
LongNotes == Repeat((INITIAL_CODER_BUFFER_SIZE + 1) \div 3, NoteOnMsg)

\* status bytes only, one byte longer than the initial buffer: no message
LongInvalid == Fill(INITIAL_CODER_BUFFER_SIZE + 1, 144)

\* The byte slices passed to send.  Each starts with a status byte or is
\* empty, so what the encoder kept of an earlier, incomplete slice is
\* discarded at its first byte; and no system-exclusive message is without its
\* end, so none is cut at the end of the buffer.
SendMessages ==
    { <<>>, NoteOnMsg, <<144, 60>>, <<240, 1>>, <<248>>, <<240, 1, SysexEnd>>,
      LongSysex, LongNotes, LongInvalid }

\* the index of the first SysexEnd in bytes, 0 when there is none
FirstEnd(bytes) ==
    IF \E i \in 1..Len(bytes) : bytes[i] = SysexEnd
    THEN CHOOSE i \in 1..Len(bytes) :
            /\ bytes[i] = SysexEnd
            /\ \A j \in 1..(i - 1) : bytes[j] # SysexEnd
    ELSE 0

\* `self.coder.get_wrapped().encode(message)`: the encoder reads bytes up to
\* the end of the first complete MIDI message and gives the event for it and
\* the number of bytes read, or no event when the slice holds no complete
\* message
Encode(bytes) ==
    LET none == [ used |-> Len(bytes), ev |-> NoEvent ] IN
    IF bytes = <<>> THEN none
    ELSE IF bytes[1] = 248 THEN [ used |-> 1, ev |-> [ kind |-> "Clock", ext |-> NoExt ] ]
    ELSE IF bytes[1] = 144
         THEN IF Len(bytes) >= 3 /\ bytes[2] < 128 /\ bytes[3] < 128
              THEN [ used |-> 3,
                     ev |-> [ kind |-> "NoteOn", ext |-> SubSeq(bytes, 2, 3) ] ]
              ELSE none
    ELSE IF bytes[1] = 240
         THEN IF FirstEnd(bytes) > 0 /\ \A j \in 2..(FirstEnd(bytes) - 1) : bytes[j] < 128
              THEN [ used |-> FirstEnd(bytes),
                     ev |-> [ kind |-> "Sysex", ext |-> SubSeq(bytes, 1, FirstEnd(bytes)) ] ]
              ELSE none
    ELSE none

\* the MIDI bytes a decoder gives for an event that was sent
DecodeSent(ev) ==
    CASE ev.kind = "Sysex"  -> ev.ext
      [] ev.kind = "NoteOn" -> <<144>> \o ev.ext
      [] ev.kind = "Clock"  -> <<248>>
      [] OTHER              -> <<>>

\* the host calls of send that can fail, and "none"
SendFailures == { "none", "resize", "output" }

\* `if nbytes > self.coder.get_buffer_size() as usize`
NeedsResize(nbytes, bufsize) == nbytes > bufsize

\* `self.buffer_size = bufsize` in EventEncoder::resize_buffer
ResizedTo(bufsize, nbytes) == nbytes

\* a changed SendOutcome: a failed resize is reported as invalid data
SendOutcomeInvalid(resizeFails, ev, fail) ==
    IF resizeFails THEN "InvalidData"
    ELSE IF ev = NoEvent THEN "InvalidData"
    ELSE IF fail = "output" THEN "Other_output"
    ELSE "Ok"

\* what send returns
SendOutcome(resizeFails, ev, fail) ==
    IF resizeFails THEN "Other_resize"
    ELSE IF ev = NoEvent THEN "InvalidData"
    ELSE IF fail = "output" THEN "Other_output"
    ELSE "Ok"

\* MidiOutputConnection::send
Send(msg, fail) ==
    LET nbytes      == Len(msg)
        resize      == NeedsResize(nbytes, coder_buffer_size)
        resizeFails == resize /\ fail = "resize"
        resized     == resize /\ ~resizeFails
        enc         == Encode(msg)
        outcome     == SendOutcome(resizeFails, enc.ev, fail)
    IN
    /\ client = "output"
    /\ mainPc = "connected"
    /\ sends < MaxSends
    \* the resize can fail only when it is called
    /\ fail = "resize" => resize
    /\ sends' = sends + 1
    /\ sendResult' = outcome
    /\ coder_buffer_size' = IF resized THEN ResizedTo(coder_buffer_size, nbytes)
                            ELSE coder_buffer_size
    /\ coder_capacity' = IF resized THEN nbytes ELSE coder_capacity
    /\ IF outcome = "Ok"
       THEN /\ sent' = sent + 1
            /\ last_sent' = enc.ev
       ELSE UNCHANGED << sent, last_sent >>
    /\ UNCHANGED << envVars, seq_open, mainPc, via, connects, connResult,
                    ignore_flags, input_seq, output_seq, outconn_seq,
                    conn_thread, conn_subscription, trigger, leakedFds, queues,
                    vports, subs, pipeData, stopWrites, joins, closerData,
                    workerPc, pending, arrived >>
    /\ UNCHANGED handlerVars

\* MidiOutputConnection::close: close_internal, then the MidiOutput is built
\* from `self.seq.take()`, so the Drop that follows does nothing
OutClose ==
    /\ client = "output"
    /\ mainPc = "connected"
    /\ mainPc' = "unconnected"
    /\ subs' = subs - Count(conn_subscription)
    /\ vports' = vports - 1
    /\ conn_subscription' = FALSE
    /\ output_seq' = outconn_seq
    /\ outconn_seq' = FALSE
    /\ CoderDropped
    /\ UNCHANGED << envVars, seq_open, via, connects, connResult, ignore_flags,
                    input_seq, conn_thread, trigger, leakedFds, queues,
                    pipeData, stopWrites, joins, closerData, workerPc, pending,
                    arrived >>
    /\ UNCHANGED handlerVars

\* Drop for MidiOutputConnection: close_internal when seq is still there,
\* then the sequencer handle is closed
OutDrop ==
    /\ client = "output"
    /\ mainPc = "connected"
    /\ mainPc' = "dropped"
    /\ subs' = 0
    /\ vports' = 0
    /\ conn_subscription' = FALSE
    /\ outconn_seq' = FALSE
    /\ seq_open' = FALSE
    /\ CoderDropped
    /\ UNCHANGED << envVars, via, connects, connResult, ignore_flags,
                    input_seq, output_seq, conn_thread, trigger, leakedFds,
                    queues, pipeData, stopWrites, joins, closerData, workerPc,
                    pending, arrived >>
    /\ UNCHANGED handlerVars

(* --------------------------- specification ---------------------------- *)

\* the sequencer, the handler thread, and close and Drop of the connection
Arrive == ArriveUpTo(MaxEvents)

ArriveInLife == ArriveUpTo(MaxLifeEvents)

HandlerThread ==
    \/ WorkerCheckPending
    \/ WorkerPoll
    \/ WorkerPollInterrupted
    \/ \E code \in ReadErrors : WorkerReadError(code)
    \/ \E ev \in Events, overflowChecks \in BOOLEAN : WorkerEvent(ev, overflowChecks)
    \/ WorkerExit

Teardown ==
    \/ Close
    \/ DropConnection
    \/ Join
    \/ Cleanup
    \/ DropAfterClose

Next ==
    \/ \E flags \in IgnoreSets : Ignore(flags)
    \/ \E p \in 0..MaxPorts, n \in 0..MaxPorts, nul \in BOOLEAN, fail \in InputFailures :
          Connect(p, n, nul, fail)
    \/ \E nul \in BOOLEAN, fail \in InputFailures : CreateVirtual(nul, fail)
    \/ ArriveInLife
    \/ HandlerThread
    \/ Teardown
    \/ \E p \in 0..MaxPorts, n \in 0..MaxPorts, nul \in BOOLEAN, fail \in OutputFailures :
          OutConnect(p, n, nul, fail)
    \/ \E nul \in BOOLEAN, fail \in OutputFailures : OutCreateVirtual(nul, fail)
    \/ \E msg \in SendMessages, fail \in SendFailures : Send(msg, fail)
    \/ OutClose
    \/ OutDrop

Spec == Init /\ [][Next]_vars

\* Spec with the scheduling of the threads: the handler thread and the
\* closing thread go on when they can, and a poll that keeps finding the pipe
\* readable reads it in the end
FairSpec ==
    /\ Init /\ [][Next]_vars
    /\ WF_vars(WorkerCheckPending)
    /\ SF_vars(WorkerPoll)
    /\ WF_vars(\E ev \in Events, overflowChecks \in BOOLEAN : WorkerEvent(ev, overflowChecks))
    /\ WF_vars(WorkerExit)
    /\ WF_vars(Join)
    /\ WF_vars(Cleanup)
    /\ WF_vars(DropAfterClose)

(* The handler thread of one connection, from the state a successful      *)
(* `MidiInput::new(..)`, `ignore(flags)`, `connect(..)` or                *)
(* `create_virtual(..)` leaves, to the end of the connection.             *)

HandlerInit ==
    /\ client = "input"
    /\ avoid_timestamping \in BOOLEAN
    /\ mainPc = "connected"
    /\ via = "none"
    /\ connects = 1
    /\ connResult = "Ok"
    /\ ignore_flags \in IgnoreSets
    /\ seq_open = TRUE
    /\ input_seq = FALSE
    /\ output_seq = FALSE
    /\ outconn_seq = FALSE
    /\ conn_thread = TRUE
    /\ conn_subscription = TRUE
    /\ trigger = [ rcv |-> "open", snd |-> "open" ]
    /\ leakedFds = 0
    /\ queues = Count(~avoid_timestamping)
    /\ vports = 1
    /\ subs = Count(conn_subscription)
    /\ pipeData = 0
    /\ stopWrites = 0
    /\ joins = 0
    /\ closerData = FALSE
    /\ workerPc = "top"
    /\ do_input = TRUE
    /\ continue_sysex = FALSE
    /\ message = <<>>
    /\ timestamp = ZeroDelta
    /\ last_time = InitialLastTime
    /\ hd_ignore_flags = ignore_flags
    /\ pending = 0
    /\ arrived = 0
    /\ pulled = 0
    /\ calls = 0
    /\ sx_frags = <<>>
    /\ last_read = "none"
    /\ coder_buffer_size = 0
    /\ coder_capacity = 0
    /\ sends = 0
    /\ sent = 0
    /\ last_sent = NoEvent
    /\ sendResult = "none"

HandlerNext ==
    \/ Arrive
    \/ HandlerThread
    \/ Teardown

HandlerSpec == HandlerInit /\ [][HandlerNext]_vars

(* ============================ the claims ============================== *)

RECURSIVE Concat(_)
\* the concatenation of a sequence of fragments, in order
Concat(frags) == IF frags = <<>> THEN <<>> ELSE Head(frags) \o Concat(Tail(frags))

\* the handler pulls ev in this step and goes on to the next iteration
Handles(ev) ==
    /\ \E overflowChecks \in BOOLEAN : WorkerEvent(ev, overflowChecks)
    /\ workerPc' = "top"

\* ev is a sysex fragment the handler does not suppress
AcceptedSysex(ev) == ev.kind = "Sysex" /\ "Sysex" \notin hd_ignore_flags

\* ev is a sysex fragment that ends in 0xF7
Terminated(ev) == ev.ext # <<>> /\ Last(ev.ext) = SysexEnd

\* ev is an event other than sysex that is not suppressed and decodes to at
\* least one byte
CompleteEvent(ev) ==
    /\ ev.kind # "Sysex"
    /\ DoDecode(ev, hd_ignore_flags)
    /\ Decode(ev) # <<>>

\* the callback is invoked in this step, once, with these bytes
CalledOnceWith(bytes) == calls' = calls + 1 /\ message' = bytes

\* C1: when the handler, with Ignore::Sysex not set, has pulled the fragments
\* of a sysex payload of which only the last ends in 0xF7, the callback is
\* invoked exactly once for the payload, at the last fragment, with the
\* concatenation of the fragments in arrival order.  (Stated for the
\* iterations the handler completes.)
C1_SysexRunDeliveredWhole ==
    [][ \A ev \in Events :
          (Handles(ev) /\ AcceptedSysex(ev)) =>
              IF Terminated(ev)
              THEN CalledOnceWith(Concat(Append(sx_frags, ev.ext)))
              ELSE calls' = calls ]_vars

\* C2: every complete message the handler observes (a non-suppressed event
\* other than sysex that decodes to at least one byte, a completed sysex run)
\* is passed to the callback exactly once, alone, in the iteration that pulls
\* the event completing it; no other iteration invokes the callback.  (Stated
\* for the iterations the handler completes.)
C2_EveryMessageOnce ==
    [][ \A ev \in Events :
          Handles(ev) =>
              IF CompleteEvent(ev)
              THEN CalledOnceWith(Decode(ev))
              ELSE IF AcceptedSysex(ev) /\ Terminated(ev)
              THEN CalledOnceWith(Concat(Append(sx_frags, ev.ext)))
              ELSE calls' = calls ]_vars

\* C6: once the handler has read the stop flag (do_input is false) it pulls
\* no further event and invokes the callback no more: its next step leaves
\* the loop.
C6_StopEndsLoop ==
    [][ (WorkerRunning /\ ~do_input) =>
           /\ pulled' = pulled
           /\ calls' = calls
           /\ pending' >= pending
           /\ message' = message
           /\ workerPc' \in {workerPc, "done"} ]_vars

\* C6 witness: the handler has left the loop on the stop flag while events
\* were ready and a sysex run was being accumulated
C6_Witness ==
    /\ workerPc = "done"
    /\ ~do_input
    /\ pending > 0
    /\ continue_sysex
    /\ message # <<>>

\* C10: the first callback invocation of a connection gets the delta 0.0,
\* whatever the captured time of the event that completed the message
C10_FirstDeltaZero ==
    [][ (calls = 0 /\ calls' = 1) => timestamp' = ZeroDelta ]_vars

\* C10 witness: the first message was delivered at the third event pulled,
\* with a captured time of 1.002500 s
C10_Witness ==
    /\ calls = 1
    /\ pulled = 3
    /\ last_time = << Timestamp(<<1, 2500000>>) >>
    /\ timestamp = ZeroDelta

\* C3: close returns only after the handler thread has left its loop
C3_CloseReturnsAfterExit ==
    (via = "close" /\ mainPc \in {"cleanup", "returned"}) => workerPc = "done"

\* C3 witness: close has returned for a connection whose handler thread
\* pulled an event
C3_Witness ==
    /\ mainPc = "returned"
    /\ workerPc = "done"
    /\ joins = 1
    /\ arrived = 1
    /\ pending = 0

\* C4: once close is called it returns, in the end, the unconnected MidiInput
C4_CloseReturns ==
    (via = "close" /\ mainPc = "joining") ~> (mainPc = "returned")

\* C5: over close() and Drop of one connection the stop request is written
\* at most once, the handler thread is joined at most once, no descriptor of
\* the pipe is closed before the join, and the Drop that follows close()
\* does nothing
C5_SingleTeardown ==
    /\ [] ( /\ stopWrites <= 1
            /\ joins <= 1
            /\ (trigger.rcv \notin {"none", "open"} \/ trigger.snd \notin {"none", "open"})
                   => joins = 1 )
    /\ [][ mainPc = "returned" =>
              /\ mainPc' = "unconnected"
              /\ stopWrites' = stopWrites
              /\ joins' = joins
              /\ trigger' = trigger
              /\ pipeData' = pipeData ]_vars

\* C5 witness: a connection was closed and then dropped
C5_Witness ==
    /\ mainPc = "unconnected"
    /\ ~conn_thread
    /\ stopWrites = 1
    /\ joins = 1
    /\ trigger = [ rcv |-> "closed", snd |-> "closed" ]

\* the HandlerData is with the handler thread: in the running thread, or in
\* the result of the ended thread that nobody has joined yet
HandlerHolds == WorkerRunning \/ (workerPc = "done" /\ joins = 0)

\* the places that hold the sequencer handle of the input client
Holders == Count(input_seq) + Count(HandlerHolds) + Count(closerData)

\* C7: the sequencer handle of an input client has exactly one owner as long
\* as it is open (the MidiInput, the handler thread, or the closing thread
\* after the join), and the closing thread or the MidiInput never holds it
\* while the handler thread runs
C7_SingleOwner ==
    client = "input" =>
        /\ Holders = Count(seq_open)
        /\ (input_seq \/ closerData) => ~WorkerRunning

\* C7 witness: the closing thread holds the handle after the join of a handler
\* thread that has pulled an event
C7_Witness ==
    /\ closerData
    /\ workerPc = "done"
    /\ ~input_seq
    /\ pulled = 1

\* the errors connect and create_virtual return
ConnectErrors == { "Other_pipe", "PortNumberOutOfRange", "Other_nul", "Other_port",
                   "Other_subscribe", "Other_thread" }

\* C8: the MidiInput that a failed connect or create_virtual hands back in
\* the error still holds its sequencer handle
C8_ErrorReturnsOriginal ==
    (client = "input" /\ mainPc = "unconnected" /\ connResult \in ConnectErrors)
        => input_seq

\* this step is a call of connect, on either client, with a port number that
\* is not below the number of ports, and the call returns
OutOfRangeCall(p, n) ==
    /\ ~(p < n)
    /\ connects' = connects + 1
    /\ \E nul \in BOOLEAN :
          \/ \E fail \in InputFailures : Connect(p, n, nul, fail)
          \/ \E fail \in OutputFailures : OutConnect(p, n, nul, fail)
    /\ mainPc' = "unconnected"

\* the call has created no port, subscription or thread and has handed the
\* client object back as it was
NothingCreated ==
    /\ vports' = vports
    /\ subs' = subs
    /\ workerPc' = workerPc
    /\ conn_thread' = conn_thread
    /\ input_seq' = input_seq
    /\ output_seq' = output_seq
    /\ ignore_flags' = ignore_flags
    /\ ~outconn_seq'

SecondOfTheTwo(ev) ==
    /\ last_time = << Timestamp(<<1, 0>>) >>
    /\ calls' = calls + 1
    /\ ev.kind # "Sysex"
    /\ ev.time = <<1, 2500000>>
    /\ Handles(ev)

\* the delta d, a number of TimestampDenominator-ths, equals num / den
DeltaEquals(d, num, den) == d.hi = 0 /\ d.lo * den = num * TimestampDenominator

\* C11 as claimed: two consecutive delivered non-sysex events captured at
\* 1.000000 s and 1.002500 s give the second callback invocation the delta 2.5
C11_DeltaTwoPointFive ==
    [][ \A ev \in Events : SecondOfTheTwo(ev) => DeltaEquals(timestamp', 5, 2) ]_vars

\* C11 amended: the second callback invocation gets the delta 0.0025 (1/400),
\* the difference of 2500 microseconds times 0.000001
C11_DeltaSeconds ==
    [][ \A ev \in Events : SecondOfTheTwo(ev) => DeltaEquals(timestamp', 1, 400) ]_vars

\* C11 witness: the second message of a connection was delivered 2500
\* microseconds after the first
C11_Witness ==
    /\ calls = 2
    /\ pulled = 2
    /\ last_read = "NoteOn"
    /\ last_time = << Timestamp(<<1, 2500000>>) >>
    /\ timestamp = [ hi |-> 0, lo |-> 2500 ]

\* the timing events: MIDI time code quarter frame, timing tick, timing clock
TimeKinds == { "Qframe", "Tick", "Clock" }

\* C12: with Ignore::Time set, the iteration that pulls a clock, tick or
\* quarter-frame event does not invoke the callback and leaves last_time as it
\* was, so the next delta is measured from the message delivered before
C12_TimeSuppressed ==
    [][ \A ev \in Events, overflowChecks \in BOOLEAN :
          ( /\ "Time" \in hd_ignore_flags
            /\ ev.kind \in TimeKinds
            /\ pulled' = pulled + 1
            /\ WorkerEvent(ev, overflowChecks) )
          => /\ calls' = calls
             /\ last_time' = last_time
             /\ timestamp' = timestamp
             /\ workerPc' = "top" ]_vars

\* C12 witness: with Ignore::Time set, the handler has delivered a message
\* and then pulled a timing event
C12_Witness ==
    /\ "Time" \in hd_ignore_flags
    /\ last_read \in TimeKinds
    /\ pulled = 2
    /\ calls = 1
    /\ last_time # <<>>

\* the bytes the event ev itself adds to the message
Contribution(ev) ==
    IF ev.kind = "Sysex"
    THEN (IF "Sysex" \in hd_ignore_flags THEN <<>> ELSE ev.ext)
    ELSE (IF DoDecode(ev, hd_ignore_flags) THEN Decode(ev) ELSE <<>>)

\* s ends with t
EndsWith(s, t) ==
    /\ Len(t) <= Len(s)
    /\ SubSeq(s, Len(s) - Len(t) + 1, Len(s)) = t

\* C13: the callback is invoked only in the iteration that pulls the event
\* completing the message, once, before the next event is pulled, and the
\* message it gets ends with the bytes of that event: messages reach the
\* callback in the order their completing events were pulled, and none is
\* delivered again by a later iteration
C13_DeliveredInOrder ==
    [][ calls' > calls =>
          \E ev \in Events :
             /\ \E overflowChecks \in BOOLEAN : WorkerEvent(ev, overflowChecks)
             /\ calls' = calls + 1
             /\ pulled' = pulled + 1
             /\ Contribution(ev) # <<>>
             /\ EndsWith(message', Contribution(ev)) ]_vars

\* C13 witness: a note-on, then a sysex payload in two fragments: two messages
\* delivered by three events
C13_Witness ==
    /\ calls = 2
    /\ pulled = 3
    /\ last_read = "Sysex"
    /\ message = <<240, 1, 2, SysexEnd>>

\* C14: an iteration in which event_input fails does not invoke the callback
\* and does not end the handler; last_time and continue_sysex are unchanged,
\* the fragments of a sysex run in progress are kept, nothing is taken from
\* the sequencer, and the loop goes on
C14_ReadErrorAbsorbed ==
    [][ \A code \in ReadErrors :
          (last_read' = code /\ WorkerReadError(code)) =>
             /\ calls' = calls
             /\ workerPc' = "top"
             /\ do_input'
             /\ last_time' = last_time
             /\ continue_sysex' = continue_sysex
             /\ continue_sysex => message' = message
             /\ sx_frags' = sx_frags
             /\ pending' = pending ]_vars

\* C14 witness: event_input has failed while a sysex run was in progress
C14_Witness ==
    /\ last_read \in ReadErrors
    /\ workerPc = "top"
    /\ continue_sysex
    /\ message = <<240, 1>>
    /\ pending > 0

\* C15: during a connection the HandlerData holds the ignore flags the
\* MidiInput had at connect, no step of the handler thread writes them, and
\* close returns a MidiInput with exactly these flags
C15_FlagsUnchanged ==
    /\ [] ( (client = "input" /\ mainPc \in {"connected", "joining", "cleanup"})
              => hd_ignore_flags = ignore_flags )
    /\ [][ HandlerThread => hd_ignore_flags' = hd_ignore_flags ]_vars
    /\ [][ (Cleanup /\ via = "close") =>
              (ignore_flags' = hd_ignore_flags /\ ignore_flags' = ignore_flags) ]_vars

\* C15 witness: close has returned a MidiInput with Ignore::Time after the
\* handler thread has pulled three events
C15_Witness ==
    /\ mainPc = "returned"
    /\ ignore_flags = {"Time"}
    /\ arrived = 3
    /\ pending = 0
    /\ workerPc = "done"

\* C16: a send call whose slice is longer than the recorded buffer size, and
\* which returns Ok, has resized the buffer to at least the length of the
\* slice, and the event it handed to the sequencer decodes to exactly the
\* bytes of the slice.  (Stated for the calls that return Ok.)
C16_LongSendRoundTrips ==
    [][ \A msg \in SendMessages, fail \in SendFailures :
          ( /\ Send(msg, fail)
            /\ Len(msg) > coder_buffer_size
            /\ sendResult' = "Ok" )
          => /\ coder_buffer_size' >= Len(msg)
             /\ coder_capacity' >= Len(msg)
             /\ sent' = sent + 1
             /\ DecodeSent(last_sent') = msg ]_vars

\* the slices that are exactly one complete MIDI message
ValidMessages == { NoteOnMsg, <<248>>, <<240, 1, SysexEnd>>, LongSysex }

\* the errors of send the claim C17 is about
RecoverableSendErrors == { "Other_resize", "InvalidData" }

\* C17: send returns Other when the resize fails and InvalidData when the
\* encoder gives no event for the bytes; in both cases no event goes to the
\* sequencer and the connection keeps its handle, port and subscription; the
\* recorded buffer size is the real one after every call; and whatever calls
\* came before, a send of one complete message that the host does not fail
\* returns Ok and its event decodes to the message
C17_SendErrorsRecoverable ==
    [][ \A msg \in SendMessages, fail \in SendFailures :
          (sends' = sends + 1 /\ Send(msg, fail)) =>
             /\ (fail = "resize") => sendResult' = "Other_resize"
             /\ (fail # "resize" /\ Encode(msg).ev = NoEvent) => sendResult' = "InvalidData"
             /\ sendResult' \in RecoverableSendErrors =>
                   /\ sent' = sent
                   /\ last_sent' = last_sent
                   /\ outconn_seq' /\ outconn_seq
                   /\ seq_open' /\ seq_open
                   /\ vports' = vports
                   /\ subs' = subs
                   /\ conn_subscription' = conn_subscription
                   /\ mainPc' = "connected"
             /\ coder_buffer_size' = coder_capacity'
             /\ (msg \in ValidMessages /\ fail = "none") =>
                   /\ sendResult' = "Ok"
                   /\ sent' = sent + 1
                   /\ DecodeSent(last_sent') = msg ]_vars

\* C17 witness: the second send call of a connection has returned Ok after a
\* first call that resized the buffer and sent nothing
C17_Witness ==
    /\ sends = 2
    /\ sent = 1
    /\ sendResult = "Ok"
    /\ last_sent.kind = "NoteOn"
    /\ coder_buffer_size = INITIAL_CODER_BUFFER_SIZE + 1
    /\ coder_capacity = coder_buffer_size

\* C18 as claimed: no pipe opened by a connect or create_virtual call that
\* returned an error is still open, no descriptor is closed twice, and no
\* descriptor of a connection is open once the connection is closed or dropped
C18_FdsClosedOnce ==
    client = "input" =>
        /\ leakedFds = 0
        /\ trigger.rcv # "closed_twice"
        /\ trigger.snd # "closed_twice"
        /\ mainPc \in {"unconnected", "returned", "dropped"} =>
               (trigger.rcv # "open" /\ trigger.snd # "open")

\* C19 as claimed: the handler thread never panics, and it has ended only
\* when a stop request was written
C19_WorkerNeverFails ==
    /\ workerPc # "panicked"
    /\ workerPc = "done" => stopWrites > 0

\* C20 as claimed: when the stop request is written and from some point on
\* nothing is pending in the sequencer, the handler thread leaves its loop and
\* the close_internal that wrote the request goes on past the join
C20_StopIsObserved ==
    [] ( (mainPc = "joining" /\ <>[](pending = 0))
            => <>(workerPc = "done" /\ mainPc \in {"cleanup", "returned", "dropped"}) )

\* C21 as claimed: every delivery after the first gets the delta
\* (T_k - T_(k-1)) / TimestampDenominator, T_k being the captured time of the
\* completing event and T_(k-1) the baseline, which is the captured time of
\* the message delivered before; the baseline is written at a delivery and
\* by no other step of the handler.  (Stated for the iterations the handler
\* completes.)
C21_DeltaOfConsecutive ==
    /\ [][ \A ev \in Events :
              (calls >= 1 /\ calls' = calls + 1 /\ Handles(ev)) =>
                 /\ timestamp' = [ hi |-> 0, lo |-> Timestamp(ev.time) - last_time[1] ]
                 /\ last_time' = << Timestamp(ev.time) >> ]_vars
    /\ [][ (HandlerThread /\ calls' = calls) => last_time' = last_time ]_vars

\* C24 as claimed: the bytes the callback gets are the decoded bytes of the
\* one event pulled in the iteration, or the concatenation of the fragments
\* of the one sysex run the event ends; and a complete event other than sysex
\* is delivered in its own iteration even during a sysex continuation.
\* (Stated for the iterations the handler completes.)
C24_NoMerging ==
    [][ \A ev \in Events :
          Handles(ev) =>
             /\ calls' = calls + 1 =>
                   message' = IF ev.kind = "Sysex"
                              THEN Concat(Append(sx_frags, ev.ext))
                              ELSE Decode(ev)
             /\ CompleteEvent(ev) => calls' = calls + 1 ]_vars

\* ev is an event the ignore flags of the connection suppress
Suppressed(ev) ==
    \/ ev.kind = "Sensing" /\ "ActiveSense" \in hd_ignore_flags
    \/ ev.kind = "Sysex" /\ "Sysex" \in hd_ignore_flags

\* what C22 says of every iteration but the state of the message buffer
SuppressedKeepsState ==
    /\ calls' = calls
    /\ continue_sysex' = continue_sysex
    /\ last_time' = last_time
    /\ workerPc' = "top"

\* with Ignore::Sysex the continuation flag is never true and the message
\* never holds a byte of a sysex payload
NoSysexWhenIgnored ==
    "Sysex" \in hd_ignore_flags =>
        /\ ~continue_sysex
        /\ sx_frags = <<>>
        /\ \A i \in 1..Len(message) : message[i] \notin {240, SysexEnd}

\* C22 as claimed: an iteration that pulls a suppressed active-sensing or
\* sysex event invokes no callback and leaves message buffer, continuation
\* flag and baseline unchanged
C22_SuppressedLeavesBuffer ==
    [][ \A ev \in Events, overflowChecks \in BOOLEAN :
          (pulled' = pulled + 1 /\ Suppressed(ev) /\ WorkerEvent(ev, overflowChecks))
          => (SuppressedKeepsState /\ message' = message) ]_vars

\* C22 amended: such an iteration invokes no callback, leaves continuation
\* flag and baseline unchanged and adds no byte to the message buffer, which
\* is cleared when no sysex run is in progress and kept otherwise; with
\* Ignore::Sysex no sysex byte is ever in the buffer and the flag is never true
C22_SuppressedAddsNothing ==
    /\ [][ \A ev \in Events, overflowChecks \in BOOLEAN :
              (pulled' = pulled + 1 /\ Suppressed(ev) /\ WorkerEvent(ev, overflowChecks))
              => /\ SuppressedKeepsState
                 /\ message' = ClearedMessage(continue_sysex, message) ]_vars
    /\ []NoSysexWhenIgnored

\* C22 witness: with Ignore::ActiveSense the handler has delivered a message
\* and then pulled an active-sensing event, which cleared the buffer
C22_Witness ==
    /\ "ActiveSense" \in hd_ignore_flags
    /\ last_read = "Sensing"
    /\ pulled = 2
    /\ calls = 1
    /\ message = <<>>
    /\ last_time # <<>>

\* C23: the callback is invoked only with a message that is not empty and
\* with continue_sysex false; and unless a sysex continuation is in progress
\* the event is processed from an empty buffer: after the iteration the
\* message holds the bytes of this event and nothing else
C23_DeliveredNonEmpty ==
    [][ \A ev \in Events :
          (pulled' = pulled + 1 /\ Handles(ev)) =>
             /\ calls' = calls + 1 => (message' # <<>> /\ ~continue_sysex')
             /\ ~continue_sysex => message' = Contribution(ev) ]_vars

\* C23 witness: a sysex payload of two fragments was delivered at the second
C23_Witness ==
    /\ calls = 1
    /\ pulled = 2
    /\ last_read = "Sysex"
    /\ ~continue_sysex
    /\ message = <<240, 1, 2, SysexEnd>>

====
